---- MODULE Spec2Model ----
(***************************************************************************)
(* Model of the auth router (routes/auth.js), its mandatory gate           *)
(* (middleware/auth.js) and the Firebase collaborator the handlers call.   *)
(*                                                                         *)
(* Every request is a record in reqs.  A handler runs to its next await in *)
(* one step (JavaScript runs a continuation to completion); the            *)
(* collaborator performs the awaited call in a step of its own, so that    *)
(* calls of different requests interleave as they do on the event loop.    *)
(* A request whose response has been sent stays in reqs for one more step  *)
(* and is then closed: the server keeps nothing of it.  deletedWith        *)
(* records the credentials DELETE /auth/user has answered 200 to.          *)
(*                                                                         *)
(* Spec is the auth router with its requests dispatched to it; AppSpec is  *)
(* the application index.js exports, whose handlers are synchronous.       *)
(*                                                                         *)
(* JavaScript values are records [t, v]: t is the typeof tag and v the     *)
(* content; a string's content is the sequence of its code units.          *)
(***************************************************************************)
EXTENDS Integers, Sequences, FiniteSets, TLC

VARIABLES reqs, principals, docs, issued, deletedWith

vars == <<reqs, principals, docs, issued, deletedWith>>

\* Number of requests the clients send in one behaviour.
MaxReq == 3

\* Number of requests whose handler may be suspended at the same time.
MaxOpen == 2

-----------------------------------------------------------------------------
(* JavaScript values *)

Undef == [t |-> "undefined", v |-> <<>>]

Null == [t |-> "null", v |-> <<>>]

False == [t |-> "boolean", v |-> <<>>]

Str(s) == [t |-> "string", v |-> s]

Num(s) == [t |-> "number", v |-> s]

Obj(s) == [t |-> "object", v |-> s]

\* !x
Falsy(x) ==
    \/ x.t \in {"undefined", "null"}
    \/ x.t = "string" /\ x.v = <<>>
    \/ x.t = "number" /\ x.v = <<"0">>
    \/ x.t = "boolean" /\ x.v = <<>>

\* a || b
Or(a, b) == IF Falsy(a) THEN b ELSE a

\* The value of a comparison operand that is not a number (undefined).
NaN == -1

\* x.length of a truthy value: only strings (of the values used here) have one.
Length(x) == IF x.t = "string" THEN Len(x.v) ELSE NaN

\* a < b on numbers, false when an operand is undefined
Less(a, b) == a # NaN /\ b # NaN /\ a < b

\* s.startsWith(p)
StartsWith(s, p) == Len(s) >= Len(p) /\ SubSeq(s, 1, Len(p)) = p

\* s.indexOf(sep, from), 1-based, 0 when there is no occurrence
IndexOf(s, sep, from) ==
    LET hits == {i \in from..(Len(s) - Len(sep) + 1) : SubSeq(s, i, i + Len(sep) - 1) = sep}
    IN IF hits = {} THEN 0 ELSE CHOOSE i \in hits : \A j \in hits : i <= j

\* s.split(sep)[1]
SplitSecond(s, sep) ==
    LET first == IndexOf(s, sep, 1)
        start == first + Len(sep)
        nxt   == IndexOf(s, sep, start)
    IN IF first = 0 THEN Undef
       ELSE IF nxt = 0 THEN Str(SubSeq(s, start, Len(s)))
       ELSE Str(SubSeq(s, start, nxt - 1))

BearerPrefix == <<"B", "e", "a", "r", "e", "r", " ">>

-----------------------------------------------------------------------------
(* Values the clients send *)

\* The text of the ID token the identity provider signs for subject u.
TokenText(u) == <<"t", ToString(u)>>

Short == Str(<<"1", "2", "3", "4", "5">>)

Good == Str(<<"1", "2", "3", "4", "5", "6">>)

Headers ==
    {Undef, Str(<<"B", "a", "s", "i", "c", " ", "x">>), Str(BearerPrefix \o <<"x">>)}
    \cup {Str(BearerPrefix \o TokenText(c.uid)) : c \in issued}

IdTokens ==
    {Undef, Str(<<>>), Num(<<"7">>), Str(<<"x">>)} \cup {Str(TokenText(c.uid)) : c \in issued}

RegisterBody(e, p, n) == [email |-> e, password |-> p, displayName |-> n, photoURL |-> Undef]

RegisterBodies ==
    {RegisterBody(Undef, Good, Undef), RegisterBody(Str(<<"a">>), Undef, Undef),
     RegisterBody(Str(<<"a">>), Str(<<>>), Undef), RegisterBody(Str(<<"a">>), Short, Undef),
     RegisterBody(Str(<<"a">>), Good, Undef), RegisterBody(Str(<<"a">>), Good, Str(<<"n">>)),
     RegisterBody(Str(<<"a">>), Num(<<"1", "2", "3", "4", "5", "6", "7">>), Undef),
     RegisterBody(Str(<<"b">>), Good, Undef)}

PutBody(n, p, b, q) == [displayName |-> n, photoURL |-> p, bio |-> b, preferences |-> q]

PutBodies ==
    {PutBody(Undef, Undef, Undef, Undef), PutBody(Undef, Undef, Str(<<"x">>), Undef),
     PutBody(Str(<<"m">>), Str(<<"p">>), Undef, Obj(<<"k">>))}

NoBody == [none |-> Undef]

-----------------------------------------------------------------------------
(* Requests *)

NoUser == [uid |-> 0]

NoResp == [status |-> 0]

NoCall == [op |-> "none"]

NoRet == [res |-> "none"]

\* A request as Express hands it to the first function of its route.
NewRequest(kind, header, body, late) ==
    [kind |-> kind, authorization |-> header, body |-> body, pc |-> "new",
     user |-> NoUser, log |-> <<>>, call |-> NoCall, ret |-> NoRet,
     userRecord |-> NoRet, resp |-> NoResp, afterDelete |-> late]

Ids == 1..Len(reqs)

Protected == {"get", "put", "delete"}

Open == {r \in Ids : reqs[r].pc \notin {"done", "closed"}}

\* What is left of a request one step after its response.
Closed == [NewRequest("closed", Undef, NoBody, FALSE) EXCEPT !.pc = "closed"]

\* The requests after a step that leaves them as next: those answered before
\* the step are closed.
Sweep(next) ==
    [i \in 1..Len(next) |->
       IF i <= Len(reqs) /\ reqs[i].pc = "done" THEN Closed ELSE next[i]]

\* new Date().toISOString() in the handler of request r
Now(r) == Str(<<"T", ToString(r)>>)

\* res.status(s).json(b): the response ends the request q
Respond(q, s, b) == [q EXCEPT !.pc = "done", !.resp = [status |-> s, body |-> b]]

\* await <collaborator call>: the call is issued and the handler of q suspends
Await(q, op, id, args) ==
    [q EXCEPT !.pc = "wait",
              !.call = [op |-> op, id |-> id, args |-> args],
              !.log = Append(@, [op |-> op, id |-> id, res |-> "pending", code |-> ""])]

\* the collaborator settles the pending call of r with result ret (the
\* result of auth.createUser stays bound to userRecord)
Settle(r, ret) ==
    reqs' = Sweep([reqs EXCEPT ![r].pc = "ret", ![r].ret = ret,
                         ![r].userRecord = IF reqs[r].call.op = "createUser" THEN ret ELSE @,
                         ![r].log[Len(reqs[r].log)].res = ret.res,
                         ![r].log[Len(reqs[r].log)].code = IF ret.res = "ok" THEN "" ELSE ret.code])

Pending(r, op) == r \in Ids /\ reqs[r].pc = "wait" /\ reqs[r].call.op = op

Returned(r, kind, op) ==
    r \in Ids /\ reqs[r].kind = kind /\ reqs[r].pc = "ret" /\ reqs[r].call.op = op

-----------------------------------------------------------------------------
(* Initial state: no request yet, an empty identity provider and store *)

Empty == [u \in {} |-> Undef]

Init ==
    /\ reqs = <<>>
    /\ principals = Empty
    /\ docs = Empty
    /\ issued = {}
    /\ deletedWith = {}

Remove(f, u) == [x \in DOMAIN f \ {u} |-> f[x]]

-----------------------------------------------------------------------------
(* The collaborator: Firebase Auth (auth) and Firestore (db) *)

Fault == [res |-> "error", code |-> "unavailable"]

\* auth.verifyIdToken(idToken), called without checkRevoked: the token is
\* checked against its signature alone, not against the principals.
CollabVerifyIdToken(r) ==
    /\ Pending(r, "verifyIdToken")
    /\ LET tok == reqs[r].call.args
           claims == {c \in issued : tok = Str(TokenText(c.uid))}
       IN \/ Settle(r, Fault)
          \/ /\ claims = {}
             /\ Settle(r, [res |-> "error", code |-> "auth/argument-error"])
          \/ \E c \in claims :
                Settle(r, [res |-> "ok",
                           val |-> [uid |-> c.uid, email |-> c.email, email_verified |-> False,
                                    name |-> Undef, picture |-> Undef]])
    /\ UNCHANGED <<principals, docs, issued, deletedWith>>

\* auth.createUser(properties): the uid of the new principal is fresh (it is
\* named after the request that creates it).  From then on the owner of the
\* principal can sign in with the Firebase SDK and present its ID token.
CollabCreateUser(r) ==
    /\ Pending(r, "createUser")
    /\ LET p == reqs[r].call.args
           taken == \E u \in DOMAIN principals : principals[u].email = p.email
           rec == [uid |-> r, email |-> p.email, displayName |-> p.displayName,
                   photoURL |-> p.photoURL, emailVerified |-> p.emailVerified]
       IN \/ Settle(r, Fault) /\ UNCHANGED <<principals, issued>>
          \/ /\ taken
             /\ Settle(r, [res |-> "error", code |-> "auth/email-already-exists"])
             /\ UNCHANGED <<principals, issued, deletedWith>>
          \/ /\ ~taken
             /\ principals' = (r :> rec) @@ principals
             /\ issued' = issued \cup {[uid |-> r, email |-> p.email]}
             /\ Settle(r, [res |-> "ok", val |-> rec])
    /\ UNCHANGED <<docs, deletedWith>>

\* auth.updateUser(uid, properties)
CollabUpdateUser(r) ==
    /\ Pending(r, "updateUser")
    /\ LET u == reqs[r].call.id
           p == reqs[r].call.args
       IN \/ Settle(r, Fault) /\ UNCHANGED principals
          \/ /\ u \notin DOMAIN principals
             /\ Settle(r, [res |-> "error", code |-> "auth/user-not-found"])
             /\ UNCHANGED principals
          \/ /\ u \in DOMAIN principals
             /\ principals' =
                  [principals EXCEPT ![u].displayName = IF p.displayName # Undef
                                                        THEN p.displayName ELSE @,
                                     ![u].photoURL = IF p.photoURL # Undef
                                                     THEN p.photoURL ELSE @]
             /\ Settle(r, [res |-> "ok"])
    /\ UNCHANGED <<docs, issued, deletedWith>>

\* auth.deleteUser(uid)
CollabDeleteUser(r) ==
    /\ Pending(r, "deleteUser")
    /\ LET u == reqs[r].call.id
       IN \/ Settle(r, Fault) /\ UNCHANGED principals
          \/ /\ u \notin DOMAIN principals
             /\ Settle(r, [res |-> "error", code |-> "auth/user-not-found"])
             /\ UNCHANGED principals
          \/ /\ u \in DOMAIN principals
             /\ principals' = Remove(principals, u)
             /\ Settle(r, [res |-> "ok"])
    /\ UNCHANGED <<docs, issued, deletedWith>>

\* db.collection('users').doc(uid).get()
CollabGet(r) ==
    /\ Pending(r, "get")
    /\ LET u == reqs[r].call.id
       IN \/ Settle(r, Fault)
          \/ /\ u \in DOMAIN docs
             /\ Settle(r, [res |-> "ok", exists |-> TRUE, data |-> docs[u]])
          \/ /\ u \notin DOMAIN docs
             /\ Settle(r, [res |-> "ok", exists |-> FALSE, data |-> Undef])
    /\ UNCHANGED <<principals, docs, issued, deletedWith>>

\* db.collection('users').doc(uid).set(data)
CollabSet(r) ==
    /\ Pending(r, "set")
    /\ LET u == reqs[r].call.id
       IN \/ Settle(r, Fault) /\ UNCHANGED docs
          \/ /\ docs' = (u :> reqs[r].call.args) @@ Remove(docs, u)
             /\ Settle(r, [res |-> "ok"])
    /\ UNCHANGED <<principals, issued, deletedWith>>

\* An update that replaces the whole document by the supplied fields.
MergeReplacing(doc, updates) == [f \in DOMAIN doc |-> updates[f]]

\* Firestore merges the supplied fields ('profile.bio' addresses the nested
\* field, kept here as the field profile_bio) into the document.
Merge(doc, updates) ==
    [f \in DOMAIN doc |-> IF updates[f] # Undef THEN updates[f] ELSE doc[f]]

\* db.collection('users').doc(uid).update(updates): fails on a missing document
CollabUpdate(r) ==
    /\ Pending(r, "update")
    /\ LET u == reqs[r].call.id
       IN \/ Settle(r, Fault) /\ UNCHANGED docs
          \/ /\ u \notin DOMAIN docs
             /\ Settle(r, [res |-> "error", code |-> "not-found"])
             /\ UNCHANGED <<docs, deletedWith>>
          \/ /\ u \in DOMAIN docs
             /\ docs' = [docs EXCEPT ![u] = Merge(@, reqs[r].call.args)]
             /\ Settle(r, [res |-> "ok"])
    /\ UNCHANGED <<principals, issued, deletedWith>>

\* db.collection('users').doc(uid).delete(): succeeds on a missing document
CollabDelete(r) ==
    /\ Pending(r, "delete")
    /\ LET u == reqs[r].call.id
       IN \/ Settle(r, Fault) /\ UNCHANGED docs
          \/ /\ docs' = Remove(docs, u)
             /\ Settle(r, [res |-> "ok"])
    /\ UNCHANGED <<principals, issued, deletedWith>>

-----------------------------------------------------------------------------------------------------------------------------------------------------
(* middleware/auth.js: the mandatory gate *)

ErrorBody(e, m) == [error |-> e, message |-> m]

\* A gate that checks the presence of the header but not its scheme.
NoTokenAnyScheme(authHeader) == Falsy(authHeader)

\* !authHeader || !authHeader.startsWith('Bearer ')
NoToken(authHeader) == Falsy(authHeader) \/ ~StartsWith(authHeader.v, BearerPrefix)

\* verifyToken up to its await
VerifyToken(q) ==
    IF NoToken(q.authorization)
    THEN Respond(q, 401, ErrorBody("No token provided",
                                   "Authorization header with Bearer token is required"))
    ELSE Await(q, "verifyIdToken", 0, SplitSecond(q.authorization.v, BearerPrefix))

\* A gate that calls next() whatever the verification answered.
GatePassesAlways(ret) == TRUE

\* The inner try of verifyToken lets the request through when the call resolved.
GatePasses(ret) == ret.res = "ok"

\* req.user = {...}
Identity(decodedToken) ==
    [uid |-> decodedToken.uid, email |-> decodedToken.email,
     emailVerified |-> decodedToken.email_verified, name |-> decodedToken.name,
     picture |-> decodedToken.picture]

-----------------------------------------------------------------------------
(* routes/auth.js: POST /auth/register *)

MinPasswordLength == 6

\* !email || !password
MissingFields(body) == Falsy(body.email) \/ Falsy(body.password)

\* password.length < 6
PasswordTooShort(body) == Less(Length(body.password), MinPasswordLength)

\* A document that marks the email verified and leaves the bio out.
UserDataIncomplete(r, userRecord, body) ==
    [uid |-> Str(<<ToString(userRecord.uid)>>), email |-> userRecord.email,
     displayName |-> Or(body.displayName, Null), photoURL |-> Or(body.photoURL, Null),
     emailVerified |-> [t |-> "boolean", v |-> <<"true">>], createdAt |-> Now(r),
     lastLoginAt |-> Now(r), lastUpdatedAt |-> Undef, profile_bio |-> Undef,
     profile_preferences |-> Obj(<<>>)]

\* the document written for the new principal
UserData(r, userRecord, body) ==
    [uid |-> Str(<<ToString(userRecord.uid)>>), email |-> userRecord.email,
     displayName |-> Or(body.displayName, Null), photoURL |-> Or(body.photoURL, Null),
     emailVerified |-> False, createdAt |-> Now(r), lastLoginAt |-> Now(r),
     lastUpdatedAt |-> Undef, profile_bio |-> Str(<<>>), profile_preferences |-> Obj(<<>>)]

\* the handler up to await auth.createUser
Register(q) ==
    IF MissingFields(q.body)
    THEN Respond(q, 400, ErrorBody("Missing required fields",
                                   "Email and password are required"))
    ELSE IF PasswordTooShort(q.body)
    THEN Respond(q, 400, ErrorBody("Password too short",
                                   "Password must be at least 6 characters long"))
    ELSE Await(q, "createUser", 0,
               [email |-> q.body.email, password |-> q.body.password,
                displayName |-> Or(q.body.displayName, Undef),
                photoURL |-> Or(q.body.photoURL, Undef), emailVerified |-> False])

\* Catch blocks that do not look at the error code.
RegisterFailureStatusBlind(code) == 500

\* the status the two catch blocks of the handler give an error
RegisterFailureStatus(code) == IF code = "auth/email-already-exists" THEN 409 ELSE 500

\* Catch blocks that compensate a failed registration by deleting the principal.
RegisterFailCompensating(q) == Await(q, "deleteUser", q.log[1].id, Undef)

RegisterFail(q) ==
    IF RegisterFailureStatus(q.ret.code) = 409
    THEN Respond(q, 409, ErrorBody("User already exists",
                                   "An account with this email already exists"))
    ELSE Respond(q, RegisterFailureStatus(q.ret.code),
                 ErrorBody("Registration failed", "An error occurred during registration"))

\* after auth.createUser: write the profile document, or the catch blocks
RegisterAfterCreateUser(q, r) ==
    IF q.ret.res = "ok"
    THEN LET userRecord == q.ret.val
         IN Await(q, "set", userRecord.uid, UserData(r, userRecord, q.body))
    ELSE RegisterFail(q)

\* after the document write: 201, or the catch blocks
RegisterAfterSet(q, r) ==
    IF q.ret.res = "ok"
    THEN LET userRecord == q.userRecord.val
         IN Respond(q, 201,
              [message |-> "User created successfully",
               user |-> [uid |-> Str(<<ToString(userRecord.uid)>>),
                         email |-> userRecord.email,
                         displayName |-> Or(userRecord.displayName, Null),
                         photoURL |-> Or(userRecord.photoURL, Null),
                         emailVerified |-> userRecord.emailVerified]])
    ELSE RegisterFail(q)

-----------------------------------------------------------------------------
(* routes/auth.js: GET /auth/user *)

GetUser(q) == Await(q, "get", q.user.uid, Undef)

GetUserAfterGet(q, r) ==
    LET userDoc == q.ret
    IN IF userDoc.res # "ok"
       THEN Respond(q, 500, ErrorBody("Failed to get user",
                                      "An error occurred while fetching user data"))
       ELSE IF ~userDoc.exists
       THEN Respond(q, 404, ErrorBody("User not found",
                                      "User profile not found in database"))
       ELSE Respond(q, 200, [user |-> userDoc.data])

-----------------------------------------------------------------------------
(* routes/auth.js: PUT /auth/user *)

\* authUpdates
AuthUpdates(body) == [displayName |-> body.displayName, photoURL |-> body.photoURL]

\* Object.keys(authUpdates).length > 0
HasAuthUpdates(body) == body.displayName # Undef \/ body.photoURL # Undef

\* updates: a field that was not supplied is not a key of the object
Updates(r, body) ==
    [uid |-> Undef, email |-> Undef, displayName |-> body.displayName,
     photoURL |-> body.photoURL, emailVerified |-> Undef, createdAt |-> Undef,
     lastLoginAt |-> Undef, lastUpdatedAt |-> Now(r), profile_bio |-> body.bio,
     profile_preferences |-> body.preferences]

PutFail(q) ==
    Respond(q, 500, ErrorBody("Failed to update user",
                              "An error occurred while updating user data"))

PutUser(q, r) ==
    IF HasAuthUpdates(q.body)
    THEN Await(q, "updateUser", q.user.uid, AuthUpdates(q.body))
    ELSE Await(q, "update", q.user.uid, Updates(r, q.body))

PutUserAfterUpdateUser(q, r) ==
    IF q.ret.res = "ok"
    THEN Await(q, "update", q.user.uid, Updates(r, q.body))
    ELSE PutFail(q)

PutUserAfterUpdate(q, r) ==
    IF q.ret.res = "ok"
    THEN Await(q, "get", q.user.uid, Undef)
    ELSE PutFail(q)

\* userDoc.data() is undefined for a missing document
PutUserAfterGet(q, r) ==
    IF q.ret.res = "ok"
    THEN Respond(q, 200, [message |-> "Profile updated successfully", user |-> q.ret.data])
    ELSE PutFail(q)

-----------------------------------------------------------------------------
(* routes/auth.js: DELETE /auth/user *)

DeleteFail(q) ==
    Respond(q, 500, ErrorBody("Failed to delete user",
                              "An error occurred while deleting user account"))

DeleteUser(q) == Await(q, "delete", q.user.uid, Undef)

\* A handler that deletes the principal whatever the document deletion answered.
DeleteUserAfterDeleteUnchecked(q, r) == Await(q, "deleteUser", q.user.uid, Undef)

DeleteUserAfterDelete(q, r) ==
    IF q.ret.res = "ok"
    THEN Await(q, "deleteUser", q.user.uid, Undef)
    ELSE DeleteFail(q)

DeleteUserAfterDeleteUser(q, r) ==
    IF q.ret.res = "ok"
    THEN Respond(q, 200, [message |-> "Account deleted successfully"])
    ELSE DeleteFail(q)

-----------------------------------------------------------------------------
(* routes/auth.js: POST /auth/verify-token *)

\* !idToken
MissingToken(body) == Falsy(body.idToken)

VerifyTokenRoute(q) ==
    IF MissingToken(q.body)
    THEN Respond(q, 400, ErrorBody("Missing token", "ID token is required"))
    ELSE Await(q, "verifyIdToken", 0, q.body.idToken)

\* the inner catch takes every error of the call
VerifyTokenRouteAfterVerify(q, r) ==
    IF q.ret.res = "ok"
    THEN LET decodedToken == q.ret.val
         IN Respond(q, 200,
              [valid |-> TRUE,
               user |-> [uid |-> decodedToken.uid, email |-> decodedToken.email,
                         emailVerified |-> decodedToken.email_verified]])
    ELSE Respond(q, 401, [valid |-> FALSE, error |-> "Invalid token",
                          message |-> "The provided token is invalid or expired"])

-----------------------------------------------------------------------------
(* The router: a request runs its route's functions up to the first await    *)
(* when it arrives, and from one await to the next when a call has settled.  *)

\* the handler next() calls once the gate has attached req.user
Handler(q, r) ==
    CASE q.kind = "get" -> GetUser(q)
      [] q.kind = "put" -> PutUser(q, r)
      [] q.kind = "delete" -> DeleteUser(q)

\* verifyToken after its await: attach req.user and call next(), or the inner catch
VerifyTokenResume(q, r) ==
    IF GatePasses(q.ret)
    THEN Handler([q EXCEPT !.user = IF q.ret.res = "ok" THEN Identity(q.ret.val) ELSE @], r)
    ELSE Respond(q, 401, ErrorBody("Invalid token",
                                   "The provided token is invalid or expired"))

CanArrive == Len(reqs) < MaxReq /\ Cardinality(Open) < MaxOpen

\* the requests once q has arrived and run to its first await or response
Arrived(q) == Sweep(Append(reqs, q))

\* the requests once r has run from its settled call to q
Resumed(r, q) == Sweep([reqs EXCEPT ![r] = q])

\* The request follows a DELETE /auth/user that answered 200 to the same credential.
AfterDelete(header) == header \in deletedWith

PostRegister ==
    /\ CanArrive
    /\ \E b \in RegisterBodies :
          reqs' = Arrived(Register(NewRequest("register", Undef, b, FALSE)))
    /\ UNCHANGED <<principals, docs, issued, deletedWith>>

PostVerifyToken ==
    /\ CanArrive
    /\ \E t \in IdTokens :
          reqs' = Arrived(VerifyTokenRoute(
                                 NewRequest("verify-token", Undef, [idToken |-> t], FALSE)))
    /\ UNCHANGED <<principals, docs, issued, deletedWith>>

GetAuthUser ==
    /\ CanArrive
    /\ \E h \in Headers :
          reqs' = Arrived(VerifyToken(NewRequest("get", h, NoBody, AfterDelete(h))))
    /\ UNCHANGED <<principals, docs, issued, deletedWith>>

PutAuthUser ==
    /\ CanArrive
    /\ \E h \in Headers, b \in PutBodies :
          reqs' = Arrived(VerifyToken(NewRequest("put", h, b, AfterDelete(h))))
    /\ UNCHANGED <<principals, docs, issued, deletedWith>>

DeleteAuthUser ==
    /\ CanArrive
    /\ \E h \in Headers :
          reqs' = Arrived(VerifyToken(NewRequest("delete", h, NoBody, AfterDelete(h))))
    /\ UNCHANGED <<principals, docs, issued, deletedWith>>

\* the gate of a protected request resumes after auth.verifyIdToken
ResumeGate(r) ==
    /\ r \in Ids /\ reqs[r].kind \in Protected
    /\ reqs[r].pc = "ret" /\ reqs[r].call.op = "verifyIdToken"
    /\ reqs' = Resumed(r, VerifyTokenResume(reqs[r], r))
    /\ UNCHANGED <<principals, docs, issued, deletedWith>>

ResumeRegisterCreated(r) ==
    /\ Returned(r, "register", "createUser")
    /\ reqs' = Resumed(r, RegisterAfterCreateUser(reqs[r], r))
    /\ UNCHANGED <<principals, docs, issued, deletedWith>>

ResumeRegisterStored(r) ==
    /\ Returned(r, "register", "set")
    /\ reqs' = Resumed(r, RegisterAfterSet(reqs[r], r))
    /\ UNCHANGED <<principals, docs, issued, deletedWith>>

ResumeGetUser(r) ==
    /\ Returned(r, "get", "get")
    /\ reqs' = Resumed(r, GetUserAfterGet(reqs[r], r))
    /\ UNCHANGED <<principals, docs, issued, deletedWith>>

ResumePutPrincipalUpdated(r) ==
    /\ Returned(r, "put", "updateUser")
    /\ reqs' = Resumed(r, PutUserAfterUpdateUser(reqs[r], r))
    /\ UNCHANGED <<principals, docs, issued, deletedWith>>

ResumePutUpdated(r) ==
    /\ Returned(r, "put", "update")
    /\ reqs' = Resumed(r, PutUserAfterUpdate(reqs[r], r))
    /\ UNCHANGED <<principals, docs, issued, deletedWith>>

ResumePutFetched(r) ==
    /\ Returned(r, "put", "get")
    /\ reqs' = Resumed(r, PutUserAfterGet(reqs[r], r))
    /\ UNCHANGED <<principals, docs, issued, deletedWith>>

ResumeDeleteDocDeleted(r) ==
    /\ Returned(r, "delete", "delete")
    /\ reqs' = Resumed(r, DeleteUserAfterDelete(reqs[r], r))
    /\ UNCHANGED <<principals, docs, issued, deletedWith>>

ResumeDeletePrincipalDeleted(r) ==
    /\ Returned(r, "delete", "deleteUser")
    /\ reqs' = Resumed(r, DeleteUserAfterDeleteUser(reqs[r], r))
    /\ deletedWith' = IF DeleteUserAfterDeleteUser(reqs[r], r).resp.status = 200
                      THEN deletedWith \cup {reqs[r].authorization}
                      ELSE deletedWith
    /\ UNCHANGED <<principals, docs, issued>>

ResumeVerifyToken(r) ==
    /\ Returned(r, "verify-token", "verifyIdToken")
    /\ reqs' = Resumed(r, VerifyTokenRouteAfterVerify(reqs[r], r))
    /\ UNCHANGED <<principals, docs, issued, deletedWith>>

Rs == 1..MaxReq

Next ==
    \/ PostRegister
    \/ PostVerifyToken
    \/ GetAuthUser
    \/ PutAuthUser
    \/ DeleteAuthUser
    \/ \E r \in Rs : CollabVerifyIdToken(r)
    \/ \E r \in Rs : CollabCreateUser(r)
    \/ \E r \in Rs : CollabUpdateUser(r)
    \/ \E r \in Rs : CollabDeleteUser(r)
    \/ \E r \in Rs : CollabGet(r)
    \/ \E r \in Rs : CollabSet(r)
    \/ \E r \in Rs : CollabUpdate(r)
    \/ \E r \in Rs : CollabDelete(r)
    \/ \E r \in Rs : ResumeGate(r)
    \/ \E r \in Rs : ResumeRegisterCreated(r)
    \/ \E r \in Rs : ResumeRegisterStored(r)
    \/ \E r \in Rs : ResumeGetUser(r)
    \/ \E r \in Rs : ResumePutPrincipalUpdated(r)
    \/ \E r \in Rs : ResumePutUpdated(r)
    \/ \E r \in Rs : ResumePutFetched(r)
    \/ \E r \in Rs : ResumeDeleteDocDeleted(r)
    \/ \E r \in Rs : ResumeDeletePrincipalDeleted(r)
    \/ \E r \in Rs : ResumeVerifyToken(r)

Spec == Init /\ [][Next]_vars

-----------------------------------------------------------------------------
(* index.js: the exported application.  Its handlers are synchronous: a     *)
(* request is answered in the step in which it arrives.                     *)

\* Length of the words the clients send.
MaxLen == 2

Alphabet == {"a", "b", "/", "%"}

\* the non-empty strings over the alphabet
Strings == UNION {[1..n -> Alphabet] : n \in 1..MaxLen}

Hello == <<"h", "e", "l", "l", "o">>

\* the values a JSON body can hold in word (undefined: the field is missing)
Words ==
    {Undef, Null, False, Num(<<"0">>), Num(<<"5">>), Obj(<<>>), Str(<<>>)}
    \cup {Str(w) : w \in Strings \cup {Hello}}

\* encodeURIComponent(s) of the client, on the characters of the alphabet
RECURSIVE Encode(_)
Encode(s) ==
    IF s = <<>> THEN <<>>
    ELSE (CASE Head(s) = "/" -> <<"%", "2", "F">>
            [] Head(s) = "%" -> <<"%", "2", "5">>
            [] OTHER -> <<Head(s)>>) \o Encode(Tail(s))

\* A decoding that hands the path segment over as it is.
DecodeVerbatim(s) == [ok |-> TRUE, v |-> s]

\* decodeURIComponent(s) as the router applies it to a path parameter: a '%'
\* that does not start an escape sequence is a URIError
RECURSIVE Decode(_)
Decode(s) ==
    IF s = <<>> THEN [ok |-> TRUE, v |-> <<>>]
    ELSE IF Head(s) # "%"
    THEN LET rest == Decode(Tail(s))
         IN [ok |-> rest.ok, v |-> <<Head(s)>> \o rest.v]
    ELSE IF Len(s) >= 3 /\ SubSeq(s, 2, 3) \in {<<"2", "F">>, <<"2", "5">>}
    THEN LET rest == Decode(SubSeq(s, 4, Len(s)))
         IN [ok |-> rest.ok,
             v |-> <<IF SubSeq(s, 2, 3) = <<"2", "F">> THEN "/" ELSE "%">> \o rest.v]
    ELSE [ok |-> FALSE, v |-> <<>>]

\* the path segments the clients put after /palindrome/: encoded words, and
\* segments that are no encoding of a word
Segments ==
    {Encode(w) : w \in Strings \cup {Hello}}
    \cup {<<>>, <<"%">>, <<"%", "a">>, <<"a", "/">>, <<"a", "/", "b">>}

RootUrl == <<"/">>

HelloUrl == <<"/", "h", "e", "l", "l", "o">>

PalindromeUrl == <<"/", "p", "a", "l", "i", "n", "d", "r", "o", "m", "e">>

AuthUrl == <<"/", "a", "u", "t", "h">>

RegisterUrl == AuthUrl \o <<"/", "r", "e", "g", "i", "s", "t", "e", "r">>

VerifyTokenUrl == AuthUrl \o <<"/", "v", "e", "r", "i", "f", "y", "-", "t", "o", "k", "e", "n">>

UserUrl == AuthUrl \o <<"/", "u", "s", "e", "r">>

\* the endpoints the README documents under /auth
AuthEndpoints ==
    {[method |-> "POST", url |-> RegisterUrl], [method |-> "POST", url |-> VerifyTokenUrl],
     [method |-> "GET", url |-> UserUrl], [method |-> "PUT", url |-> UserUrl],
     [method |-> "DELETE", url |-> UserUrl]}

\* A request as it enters the application, its body parsed by express.json().
AppRequest(method, url, header, body) ==
    [kind |-> "app", method |-> method, url |-> url, authorization |-> header, body |-> body,
     params |-> [word |-> Undef], route |-> "none", pc |-> "new", resp |-> NoResp]

\* the routers match a path with or without one trailing slash
StripSlash(url) ==
    IF Len(url) > 1 /\ url[Len(url)] = "/" THEN SubSeq(url, 1, Len(url) - 1) ELSE url

\* the text :word captures, <<>> when the path does not match /palindrome/:word
WordSegment(url) ==
    LET u == StripSlash(url)
        prefix == PalindromeUrl \o <<"/">>
        seg == SubSeq(u, Len(prefix) + 1, Len(u))
    IN IF StartsWith(u, prefix) /\ \A i \in 1..Len(seg) : seg[i] # "/" THEN seg ELSE <<>>

\* The route table of index.js, in the order of registration: the first route
\* whose method and path match the request.  No route is registered for /auth.
Route(q) ==
    CASE q.method = "GET" /\ StripSlash(q.url) = RootUrl -> "GET /"
      [] q.method = "GET" /\ StripSlash(q.url) = HelloUrl -> "GET /hello"
      [] q.method = "POST" /\ StripSlash(q.url) = PalindromeUrl -> "POST /palindrome"
      [] q.method = "GET" /\ WordSegment(q.url) # <<>> -> "GET /palindrome/:word"
      [] OTHER -> "none"

\* a handler throws: the router passes the error on to the error middleware
Throw(q) == [q EXCEPT !.pc = "thrown"]

\* word.split('')
Split(s) == [i \in 1..Len(s) |-> <<s[i]>>]

\* array.reverse()
Reverse(a) == [i \in 1..Len(a) |-> a[Len(a) + 1 - i]]

\* array.join('')
RECURSIVE Join(_)
Join(a) == IF a = <<>> THEN <<>> ELSE Head(a) \o Join(Tail(a))

\* word.split('').reverse().join(''): only a string has split
Palindrome(word) == Str(Join(Reverse(Split(word.v))))

\* app.get('/')
GetRootHandler(q) == Respond(q, 200, [message |-> "Welcome to the API"])

\* app.get('/hello')
GetHelloHandler(q) == Respond(q, 200, [message |-> "Hello from Vercel"])

\* app.post('/palindrome')
PostPalindromeHandler(q) ==
    LET word == q.body.word
    IN IF Falsy(word)
       THEN Respond(q, 400, [error |-> "Please provide a word"])
       ELSE IF word.t # "string"
       THEN Throw(q)
       ELSE Respond(q, 200, [original |-> word, palindrome |-> Palindrome(word)])

\* app.get('/palindrome/:word')
GetPalindromeHandler(q) ==
    LET word == q.params.word
    IN Respond(q, 200, [original |-> word, palindrome |-> Palindrome(word)])

\* the error handling middleware
ErrorHandler(q) == Respond(q, 500, [error |-> "Something went wrong!"])

\* the answer of the router when no route matches
NotFound(q) == Respond(q, 404, [html |-> <<"Cannot", q.method, q.url>>])

\* the application: the matching route's handler, the error middleware for
\* what the handler or the decoding of its parameter throws
App(q) ==
    LET route == Route(q)
        matched == [q EXCEPT !.route = route]
        param == Decode(WordSegment(q.url))
        out == CASE route = "GET /" -> GetRootHandler(matched)
                 [] route = "GET /hello" -> GetHelloHandler(matched)
                 [] route = "POST /palindrome" -> PostPalindromeHandler(matched)
                 [] route = "GET /palindrome/:word" ->
                      IF param.ok
                      THEN GetPalindromeHandler([matched EXCEPT !.params.word = Str(param.v)])
                      ELSE Throw(matched)
                 [] OTHER -> NotFound(matched)
    IN IF out.pc = "thrown" THEN ErrorHandler(out) ELSE out

GetRoot ==
    /\ CanArrive
    /\ reqs' = Arrived(App(AppRequest("GET", RootUrl, Undef, NoBody)))
    /\ UNCHANGED <<principals, docs, issued, deletedWith>>

GetHello ==
    /\ CanArrive
    /\ reqs' = Arrived(App(AppRequest("GET", HelloUrl, Undef, NoBody)))
    /\ UNCHANGED <<principals, docs, issued, deletedWith>>

PostPalindrome ==
    /\ CanArrive
    /\ \E w \in Words :
          reqs' = Arrived(App(AppRequest("POST", PalindromeUrl, Undef, [word |-> w])))
    /\ UNCHANGED <<principals, docs, issued, deletedWith>>

GetPalindrome ==
    /\ CanArrive
    /\ \E seg \in Segments :
          reqs' = Arrived(App(AppRequest("GET", PalindromeUrl \o <<"/">> \o seg, Undef, NoBody)))
    /\ UNCHANGED <<principals, docs, issued, deletedWith>>

\* a request for one of the documented /auth endpoints
RequestAuth ==
    /\ CanArrive
    /\ \E e \in AuthEndpoints, h \in Headers :
          reqs' = Arrived(App(AppRequest(e.method, e.url, h, NoBody)))
    /\ UNCHANGED <<principals, docs, issued, deletedWith>>

AppNext ==
    \/ GetRoot
    \/ GetHello
    \/ PostPalindrome
    \/ GetPalindrome
    \/ RequestAuth

AppSpec == Init /\ [][AppNext]_vars

-----------------------------------------------------------------------------
(* Properties *)

Done(r) == reqs[r].pc = "done"

Status(r) == reqs[r].resp.status

DataOps == {"get", "update", "delete", "updateUser", "deleteUser"}

\* The credential of r is the Bearer header of a token the provider signed for c.
Presents(r, c) == reqs[r].authorization = Str(BearerPrefix \o TokenText(c.uid))

\* The header of r is present and starts with 'Bearer '.
HasBearer(r) ==
    /\ reqs[r].authorization.t = "string"
    /\ Len(reqs[r].authorization.v) >= 7
    /\ SubSeq(reqs[r].authorization.v, 1, 7) = <<"B", "e", "a", "r", "e", "r", " ">>

\* C1: a protected request issues a document or principal call only after its
\* own verifyIdToken call succeeded and req.user was attached, and every such
\* call addresses the uid of req.user.
C1_GateBeforeData ==
    \A r \in Ids :
      reqs[r].kind \in Protected =>
        \A i \in 1..Len(reqs[r].log) :
          reqs[r].log[i].op \in DataOps =>
            /\ i > 1
            /\ reqs[r].log[1].op = "verifyIdToken" /\ reqs[r].log[1].res = "ok"
            /\ reqs[r].user # NoUser
            /\ \E c \in issued : Presents(r, c) /\ reqs[r].user.uid = c.uid
            /\ reqs[r].log[i].id = reqs[r].user.uid

\* A DELETE passed the gate and issued both of its calls for its own uid.
C1_Witness ==
    \E r \in Ids :
      /\ reqs[r].kind = "delete" /\ Len(reqs[r].log) = 3
      /\ reqs[r].log[3].op = "deleteUser" /\ reqs[r].log[3].id = reqs[r].user.uid
      /\ reqs[r].user.uid > 0

\* C2: without a Bearer header the gate answers 401 'No token provided' and
\* calls nothing; with a Bearer header whose verification fails it answers
\* 401 'Invalid token', attaches no Identity and the handler never runs.
C2_GateRejects ==
    \A r \in Ids :
      reqs[r].kind \in Protected =>
        /\ ~HasBearer(r) =>
             /\ reqs[r].log = <<>> /\ reqs[r].user = NoUser
             /\ reqs[r].pc = "done"
             /\ Done(r) => /\ Status(r) = 401
                           /\ reqs[r].resp.body.error = "No token provided"
        /\ (HasBearer(r) /\ reqs[r].log # <<>> /\ reqs[r].log[1].res = "error") =>
             /\ Len(reqs[r].log) = 1 /\ reqs[r].user = NoUser
             /\ reqs[r].pc \in {"ret", "done"}
             /\ Done(r) => /\ Status(r) = 401
                           /\ reqs[r].resp.body.error = "Invalid token"

\* Both rejections happen: a request with another scheme has been answered 401
\* and the token of a request with a Bearer header has just been refused.
C2_Witness ==
    \E r, q \in Ids :
      /\ reqs[r].kind \in Protected /\ ~HasBearer(r) /\ Done(r) /\ Status(r) = 401
      /\ reqs[r].authorization # Undef
      /\ reqs[q].kind \in Protected /\ HasBearer(q) /\ reqs[q].pc = "ret"
      /\ reqs[q].log[1].code = "auth/argument-error"

\* C3: a failure of verifyIdToken that is no verification failure (a
\* transport error) makes the gate answer 500 'Authentication error', never 401.
C3_FaultIs500 ==
    \A r \in Ids :
      (/\ reqs[r].kind \in Protected /\ Done(r)
       /\ reqs[r].log # <<>> /\ reqs[r].log[1].code = "unavailable") =>
        /\ Status(r) = 500
        /\ reqs[r].resp.body.error = "Authentication error"

\* The first call of r has been settled with this error code.
FirstCode(r, code) == reqs[r].log # <<>> /\ reqs[r].log[1].code = code

\* The password is missing, empty, not a string, or shorter than 6 characters.
BadPassword(body) ==
    \/ body.password.t # "string"
    \/ Len(body.password.v) < 6

\* The value is missing, empty or not a string.
NoString(x) == x.t # "string" \/ x.v = <<>>

\* C4: a registration with a missing or empty email or a bad password, and a
\* verify-token without a non-empty string idToken, end with 400 and issue no
\* collaborator call.
C4_ValidationShortCircuits ==
    \A r \in Ids :
      /\ (reqs[r].kind = "register"
          /\ (NoString(reqs[r].body.email) \/ BadPassword(reqs[r].body))) =>
           /\ reqs[r].log = <<>>
           /\ Done(r) => Status(r) = 400
      /\ (reqs[r].kind = "verify-token" /\ NoString(reqs[r].body.idToken)) =>
           /\ reqs[r].log = <<>>
           /\ Done(r) => Status(r) = 400

\* C5: verify-token with a non-empty idToken answers 200 {valid: true} when the
\* token verifies, 401 {valid: false} when it is invalid, and 500 exactly when
\* the call failed with a transport fault.
C5_VerifyTokenStatus ==
    \A r \in Ids :
      (reqs[r].kind = "verify-token" /\ Done(r) /\ ~Falsy(reqs[r].body.idToken)) =>
        /\ reqs[r].log[1].res = "ok" => Status(r) = 200 /\ reqs[r].resp.body.valid
        /\ FirstCode(r, "auth/argument-error") =>
             Status(r) = 401 /\ ~reqs[r].resp.body.valid
        /\ Status(r) = 500 <=> FirstCode(r, "unavailable")

\* C6: a GET /auth/user that follows a DELETE /auth/user answered 200 to the
\* same credential is rejected by the gate with 401 and never runs the handler.
C6_DeletedCredentialRejected ==
    \A r \in Ids :
      (reqs[r].kind = "get" /\ reqs[r].afterDelete) =>
        /\ Len(reqs[r].log) <= 1
        /\ Done(r) => Status(r) = 401

\* The last call of r was settled with a failure.
LastFailed(r) == reqs[r].log # <<>> /\ reqs[r].log[Len(reqs[r].log)].res = "error"

LastCode(r) == reqs[r].log[Len(reqs[r].log)].code

\* C7: a registration answers 409 exactly when createUser failed with
\* 'auth/email-already-exists', and then no document write was issued; every
\* other failure of createUser or of the document write answers 500
\* 'Registration failed'; a 201 follows no failed call; two principals never
\* hold the same email.
C7_RegisterFailureClasses ==
    /\ \A r \in Ids :
         (reqs[r].kind = "register" /\ Done(r)) =>
           /\ Status(r) = 409 <=>
                (LastFailed(r) /\ LastCode(r) = "auth/email-already-exists")
           /\ Status(r) = 409 =>
                /\ Len(reqs[r].log) = 1 /\ reqs[r].log[1].op = "createUser"
                /\ reqs[r].resp.body.error = "User already exists"
                /\ r \notin DOMAIN docs
           /\ (LastFailed(r) /\ LastCode(r) # "auth/email-already-exists") =>
                Status(r) = 500 /\ reqs[r].resp.body.error = "Registration failed"
           /\ Status(r) = 201 => \A i \in 1..Len(reqs[r].log) : reqs[r].log[i].res = "ok"
    /\ \A u, w \in DOMAIN principals : principals[u].email = principals[w].email => u = w

\* A second registration of a registered email got 409 while the createUser
\* call of another registration has met a transport fault.
C7_Witness ==
    \E r, q \in Ids :
      /\ reqs[r].kind = "register" /\ Done(r) /\ Status(r) = 409
      /\ \E u \in DOMAIN principals : principals[u].email = reqs[r].body.email
      /\ reqs[q].kind = "register" /\ reqs[q].pc = "ret" /\ FirstCode(q, "unavailable")

\* The profile document as the claim describes it, for the principal of r.
ProfileOf(r, d) ==
    /\ d.uid = Str(<<ToString(r)>>) /\ d.email = reqs[r].body.email
    /\ d.emailVerified = False
    /\ d.profile_bio = Str(<<>>) /\ d.profile_preferences = Obj(<<>>)

\* r answers 201 in this step.
Answers(r, s) == reqs[r].pc # "done" /\ reqs'[r].pc = "done" /\ reqs'[r].resp.status = s

\* C8 as stated: at the moment of the 201 the profile document exists under the
\* new uid with the initial field values.
C8_DocumentAtResponse ==
    [][\A r \in Ids :
         (reqs[r].kind = "register" /\ Answers(r, 201)) =>
           r \in DOMAIN docs' /\ ProfileOf(r, docs'[r])]_vars

\* C8 amended: a 201 follows a successful createUser and then a successful
\* document write under the new uid; the document that write stored has the
\* uid and email of the principal, emailVerified false, an empty bio and empty
\* preferences; the response's user has a non-empty uid and emailVerified false.
C8_Created ==
    \A r \in Ids :
      (reqs[r].kind = "register" /\ Done(r) /\ Status(r) = 201) =>
        /\ Len(reqs[r].log) = 2
        /\ reqs[r].log[1].op = "createUser" /\ reqs[r].log[1].res = "ok"
        /\ reqs[r].log[2].op = "set" /\ reqs[r].log[2].res = "ok"
        /\ reqs[r].log[2].id = reqs[r].userRecord.val.uid
        /\ reqs[r].userRecord.val.email = reqs[r].body.email
        /\ ProfileOf(reqs[r].log[2].id, reqs[r].call.args)
        /\ reqs[r].resp.body.user.uid.t = "string"
        /\ reqs[r].resp.body.user.uid.v # <<>>
        /\ reqs[r].resp.body.user.uid = reqs[r].call.args.uid
        /\ reqs[r].resp.body.user.emailVerified = False

\* A registration answered 201 and its document is in the store.
C8_Witness ==
    \E r \in Ids :
      /\ reqs[r].kind = "register" /\ Done(r) /\ Status(r) = 201
      /\ r \in DOMAIN docs /\ docs[r] = reqs[r].call.args

\* The document write of r failed after its createUser succeeded.
Orphaning(r) ==
    /\ reqs[r].kind = "register" /\ Len(reqs[r].log) >= 2
    /\ reqs[r].log[1].res = "ok" /\ reqs[r].log[2].op = "set" /\ reqs[r].log[2].res = "error"

\* C9 as stated: when the document write fails after createUser succeeded the
\* request ends with 500, issues no deleteUser, and the state at the response
\* holds the principal without a profile document.
C9_OrphanAtResponse ==
    [][\A r \in Ids :
         (Orphaning(r) /\ reqs[r].pc # "done" /\ reqs'[r].pc = "done") =>
           /\ reqs'[r].resp.status = 500
           /\ r \in DOMAIN principals' /\ r \notin DOMAIN docs']_vars

\* A DELETE /auth/user of another request has deleted the principal u.
DeletedBy(u) ==
    \/ \E d \in Ids :
         /\ reqs[d].kind = "delete" /\ Len(reqs[d].log) = 3
         /\ reqs[d].log[3].op = "deleteUser" /\ reqs[d].log[3].id = u
         /\ reqs[d].log[3].res = "ok"
    \/ Str(BearerPrefix \o TokenText(u)) \in deletedWith

\* C9 amended: when the document write fails after createUser succeeded the
\* request ends with 500 and issues no call after the write (no deleteUser);
\* there is no profile document for the new uid, and the principal stays
\* unless a DELETE /auth/user with its credential has deleted it; while it
\* stays no other principal holds its email.
C9_Orphan ==
    \A r \in Ids :
      Orphaning(r) =>
        /\ Len(reqs[r].log) = 2
        /\ reqs[r].pc \in {"ret", "done"}
        /\ Done(r) => Status(r) = 500
        /\ r \notin DOMAIN docs
        /\ r \in DOMAIN principals \/ DeletedBy(r)
        /\ r \in DOMAIN principals =>
             /\ principals[r].email = reqs[r].body.email
             /\ \A u \in DOMAIN principals : principals[u].email = reqs[r].body.email => u = r

\* A registration ended with 500 leaving its principal without a document,
\* while the createUser call of another registration of the same email has
\* been refused.
C9_Witness ==
    \E r, q \in Ids :
      /\ Orphaning(r) /\ Done(r) /\ Status(r) = 500
      /\ r \in DOMAIN principals /\ r \notin DOMAIN docs
      /\ reqs[q].kind = "register" /\ reqs[q].body.email = reqs[r].body.email
      /\ reqs[q].pc = "ret" /\ FirstCode(q, "auth/email-already-exists")

\* C10: DELETE /auth/user calls the document deletion first and deleteUser only
\* after that call succeeded, issues no other call (no rollback), answers 500
\* 'Failed to delete user' when either call failed and 200 only after both
\* succeeded.
C10_DeleteOrder ==
    \A r \in Ids :
      (reqs[r].kind = "delete" /\ Len(reqs[r].log) >= 2) =>
        /\ Len(reqs[r].log) <= 3
        /\ reqs[r].log[2].op = "delete"
        /\ Len(reqs[r].log) = 3 =>
             reqs[r].log[3].op = "deleteUser" /\ reqs[r].log[2].res = "ok"
        /\ (Done(r) /\ LastFailed(r)) =>
             Status(r) = 500 /\ reqs[r].resp.body.error = "Failed to delete user"
        /\ (Done(r) /\ Status(r) = 200) =>
             /\ Len(reqs[r].log) = 3
             /\ reqs[r].log[2].res = "ok" /\ reqs[r].log[3].res = "ok"
        /\ Done(r) => Status(r) \in {200, 500}

\* A DELETE answered 500 because deleteUser failed after the document had been
\* deleted: the document stays deleted, the principal stays.
C10_Witness ==
    \E q \in Ids :
      /\ reqs[q].kind = "delete" /\ Done(q) /\ Status(q) = 500
      /\ Len(reqs[q].log) = 3 /\ reqs[q].log[2].res = "ok"
      /\ reqs[q].log[3].code = "unavailable"
      /\ reqs[q].user.uid \in DOMAIN principals /\ reqs[q].user.uid \notin DOMAIN docs

\* The body supplies bio and nothing else.
BioOnly(body) ==
    /\ body.bio # Undef
    /\ body.displayName = Undef /\ body.photoURL = Undef /\ body.preferences = Undef

\* The update call of r is settled with success in this step.
Updating(r) == Pending(r, "update") /\ reqs'[r].pc = "ret" /\ reqs'[r].ret.res = "ok"

\* C11: a PUT /auth/user that passed the gate with a body supplying only bio
\* never issues updateUser; the step in which its document update succeeds sets
\* profile.bio to the supplied value and lastUpdatedAt to the request's time and
\* leaves every other field of the document, every other document and the
\* principals unchanged; its 200 follows that update.
C11_BioOnlyFrame ==
    /\ [](\A r \in Ids :
            (reqs[r].kind = "put" /\ BioOnly(reqs[r].body)) =>
              /\ \A i \in 1..Len(reqs[r].log) : reqs[r].log[i].op # "updateUser"
              /\ (Done(r) /\ Status(r) = 200) =>
                   /\ Len(reqs[r].log) = 3
                   /\ reqs[r].log[2].op = "update" /\ reqs[r].log[2].res = "ok")
    /\ [][\A r \in Ids :
            (reqs[r].kind = "put" /\ BioOnly(reqs[r].body) /\ Updating(r)) =>
              LET u == reqs[r].user.uid
              IN /\ reqs[r].call.id = u /\ u \in DOMAIN docs
                 /\ docs' = [docs EXCEPT ![u].profile_bio = reqs[r].body.bio,
                                         ![u].lastUpdatedAt = Now(r)]
                 /\ docs'[u].displayName = docs[u].displayName
                 /\ docs'[u].photoURL = docs[u].photoURL
                 /\ docs'[u].profile_preferences = docs[u].profile_preferences
                 /\ principals' = principals]_vars

\* The update of a bio-only PUT has succeeded on the document of a principal
\* registered with a display name: the bio is the supplied one, the name stays.
C11_Witness ==
    \E r \in Ids :
      /\ reqs[r].kind = "put" /\ BioOnly(reqs[r].body)
      /\ reqs[r].pc = "ret" /\ reqs[r].call.op = "update" /\ reqs[r].ret.res = "ok"
      /\ reqs[r].user.uid \in DOMAIN docs /\ reqs[r].user.uid \in DOMAIN principals
      /\ docs[reqs[r].user.uid].profile_bio = Str(<<"x">>)
      /\ docs[reqs[r].user.uid].lastUpdatedAt = Now(r)
      /\ docs[reqs[r].user.uid].displayName = Str(<<"n">>)
      /\ principals[reqs[r].user.uid].displayName = Str(<<"n">>)

\* C12: every 200 of PUT /auth/user carries the caller's profile document, and
\* that document holds the fields this request wrote (its lastUpdatedAt and
\* every field its body supplied), whatever other requests for the same user
\* ran between its update and its re-fetch.
C12_PutReturnsWritten ==
    \A r \in Ids :
      (reqs[r].kind = "put" /\ Done(r) /\ Status(r) = 200) =>
        LET d == reqs[r].resp.body.user
            b == reqs[r].body
        IN /\ d # Undef
           /\ d.uid = Str(<<ToString(reqs[r].user.uid)>>)
           /\ d.lastUpdatedAt = Now(r)
           /\ b.bio # Undef => d.profile_bio = b.bio
           /\ b.preferences # Undef => d.profile_preferences = b.preferences
           /\ b.displayName # Undef => d.displayName = b.displayName
           /\ b.photoURL # Undef => d.photoURL = b.photoURL

\* The response of r is a failure.
Failure(r) == Done(r) /\ Status(r) >= 400

\* C13: every failure response has a status in {400, 401, 404, 409, 500} and a
\* body with an error field and a message field.
C13_FailureEnvelope ==
    \A r \in Ids :
      Failure(r) =>
        /\ Status(r) \in {400, 401, 404, 409, 500}
        /\ {"error", "message"} \subseteq DOMAIN reqs[r].resp.body

\* the statuses documented for the /auth endpoints
Documented(method, url) ==
    CASE url = RegisterUrl -> {201, 400, 409, 500}
      [] url = VerifyTokenUrl -> {200, 400, 401, 500}
      [] url = UserUrl /\ method = "GET" -> {200, 401, 404, 500}
      [] url = UserUrl /\ method \in {"PUT", "DELETE"} -> {200, 401, 500}

\* C14: a request for a documented /auth endpoint is dispatched by the
\* application to a handler, and its status is one documented for the endpoint.
C14_AuthSurfaceRouted ==
    \A r \in Ids :
      (reqs[r].kind = "app" /\ Done(r)
       /\ [method |-> reqs[r].method, url |-> reqs[r].url] \in AuthEndpoints) =>
        /\ reqs[r].route # "none"
        /\ Status(r) \in Documented(reqs[r].method, reqs[r].url)

\* r is a POST /palindrome.
IsPostPalindrome(r) ==
    reqs[r].kind = "app" /\ reqs[r].method = "POST" /\ reqs[r].url = PalindromeUrl

\* p is w read backwards.
Backwards(p, w) == Len(p) = Len(w) /\ \A i \in 1..Len(w) : p[i] = w[Len(w) + 1 - i]

\* C15: POST /palindrome answers 400 {error: 'Please provide a word'} when word
\* is missing or empty, 200 {original, palindrome} for a non-empty string, and
\* no other status for any value of word.
C15_PalindromeTwoOutcomes ==
    \A r \in Ids :
      (IsPostPalindrome(r) /\ Done(r)) =>
        LET word == reqs[r].body.word
        IN /\ Status(r) \in {200, 400}
           /\ Status(r) = 400 => reqs[r].resp.body = [error |-> "Please provide a word"]
           /\ word \in {Undef, Str(<<>>)} => Status(r) = 400
           /\ (word.t = "string" /\ word.v # <<>>) =>
                /\ Status(r) = 200
                /\ reqs[r].resp.body.original = word
                /\ Backwards(reqs[r].resp.body.palindrome.v, word.v)

\* r is a GET /palindrome/:word whose path segment is the encoding of w.
IsGetPalindrome(r, w) ==
    /\ reqs[r].kind = "app" /\ reqs[r].method = "GET"
    /\ reqs[r].url = PalindromeUrl \o <<"/">> \o Encode(w)

\* C16: the palindrome a request returns for a non-empty string w is w read
\* backwards, code unit by code unit; reversing it again gives w; and a
\* GET /palindrome/w that follows a POST /palindrome with word w returns the
\* same palindrome as the POST did.
C16_Reversal ==
    /\ [](\A r \in Ids :
            /\ (IsPostPalindrome(r) /\ Done(r) /\ Status(r) = 200) =>
                 /\ Backwards(reqs[r].resp.body.palindrome.v, reqs[r].body.word.v)
                 /\ Palindrome(reqs[r].resp.body.palindrome) = reqs[r].body.word
            /\ \A w \in Strings \cup {Hello} :
                 (IsGetPalindrome(r, w) /\ Done(r)) =>
                   /\ Status(r) = 200
                   /\ reqs[r].resp.body.original = Str(w)
                   /\ Backwards(reqs[r].resp.body.palindrome.v, w)
                   /\ Palindrome(reqs[r].resp.body.palindrome) = Str(w))
    /\ [][\A r \in Ids :
            (/\ IsPostPalindrome(r) /\ Done(r) /\ Status(r) = 200
             /\ Len(reqs') = r + 1
             /\ reqs'[r + 1].kind = "app" /\ reqs'[r + 1].method = "GET"
             /\ reqs'[r + 1].url = PalindromeUrl \o <<"/">> \o Encode(reqs[r].body.word.v)) =>
              /\ reqs'[r + 1].resp.status = 200
              /\ reqs'[r + 1].resp.body.palindrome = reqs[r].resp.body.palindrome]_vars

\* GET /palindrome/hello has answered 'olleh', or the GET of a word with a
\* slash and a percent sign has answered that word backwards.
C16_Witness ==
    \E r \in Ids :
      /\ r > 1 /\ Done(r) /\ Status(r) = 200
      /\ \/ /\ IsGetPalindrome(r, <<"/", "%">>)
            /\ reqs[r].resp.body.palindrome = Str(<<"%", "/">>)
         \/ /\ IsGetPalindrome(r, Hello)
            /\ reqs[r].resp.body.palindrome = Str(<<"o", "l", "l", "e", "h">>)

\* C17: a profile document exists for a uid only if a principal with that uid
\* exists, in every reachable state.
C17_DocumentHasPrincipal == DOMAIN docs \subseteq DOMAIN principals

====
